---- MODULE Spec2Model ----
(***************************************************************************)
(* Bitbucket OAuth2 backend (social_auth/backends/bitbucket.py): the login *)
(* attempt as a state machine, one process per attempt.                    *)
(*                                                                         *)
(* Python values.  A str is a sequence of one-character strings, '' is     *)
(* <<>>.  None is the one-element sequence <<"None">>, which is no str     *)
(* because "None" is not one character.  A dict is a function whose DOMAIN *)
(* is the set of keys present; where a dict or None is expected, None is   *)
(* NoneData (TLC cannot compare a sequence with such a function).  A call  *)
(* returns [raised, value]: raised is "none" on a normal return and the    *)
(* exception's name otherwise.                                             *)
(***************************************************************************)
EXTENDS Integers, Sequences, FiniteSets, TLC

VARIABLES pc, reason, tokenResp, profileResp, emailResp, response, name,
          details, identity, requests, open, BACKENDS

vars == <<pc, reason, tokenResp, profileResp, emailResp, response, name,
          details, identity, requests, open, BACKENDS>>

\* ---------------------------------------------------------------- bounds
MaxNameLen == 3
MaxEmails == 2
NumAttempts == 2

\* ------------------------------------------------------- Python values
Empty == <<>>
None == <<"None">>
EmptyDict == [k \in {} |-> Empty]
NoneData == [None |-> TRUE]

Ret(v) == [raised |-> "none", value |-> v]
Raise(e) == [raised |-> e, value |-> None]

Get(d, k, default) == IF k \in DOMAIN d THEN d[k] ELSE default

SeqsUpTo(S, n) == UNION {[1..k -> S] : k \in 0..n}

\* ------------------------------------------------------------ constants
BITBUCKET_USER_DATA_URL == "https://bitbucket.org/api/2.0/user/"

PAGELEN == 100

BitbucketAuth == "BitbucketAuth"

BackendRegistry == [bitbucket |-> BitbucketAuth]

\* ------------------------------------------------- provider's responses
UuidAbc123 == <<"a", "b", "c", "-", "1", "2", "3">>
Grace == <<"g", "r", "a", "c", "e">>
GraceHopper == <<"G", "r", "a", "c", "e", " ", "H", "o", "p", "p", "e", "r">>
Madonna == <<"M", "a", "d", "o", "n", "n", "a">>
GXCom == <<"g", "@", "x", ".", "c", "o", "m">>
GraceXCom == <<"g", "r", "a", "c", "e", "@", "x", ".", "c", "o", "m">>

Chars == {"a", " ", "\t"}
Whitespace == {" ", "\t"}

Names == SeqsUpTo(Chars, MaxNameLen) \cup {GraceHopper, Madonna}

NotCalled == [kind |-> "not_called", body |-> EmptyDict]

ProfileVals(k) ==
    CASE k = "uuid" -> {None, Empty, UuidAbc123}
      [] k = "username" -> {Grace}
      [] k = "display_name" -> Names \cup {None}

ProfileBodies ==
    UNION {{d \in [ks -> UNION {ProfileVals(k) : k \in ks}] :
               \A k \in ks : d[k] \in ProfileVals(k)}
           : ks \in SUBSET {"uuid", "username", "display_name"}}

ProfileResponses ==
    {[kind |-> "json_object", body |-> b] : b \in ProfileBodies}
    \cup {[kind |-> k, body |-> EmptyDict] : k \in {"not_json", "http_error", "url_error"}}

EmailRecords ==
    {[email |-> e, is_primary |-> p] : e \in {GXCom, GraceXCom}, p \in BOOLEAN}
    \cup {[email |-> GXCom]}

EmailResponses ==
    {[kind |-> "json_object", body |-> [values |-> s]] : s \in SeqsUpTo(EmailRecords, MaxEmails)}
    \cup {[kind |-> k, body |-> EmptyDict]
          : k \in {"json_object", "json_array", "not_json", "http_error", "url_error"}}

SmallProfileResponses ==
    {[kind |-> "json_object",
      body |-> [uuid |-> UuidAbc123, username |-> Grace, display_name |-> GraceHopper]],
     [kind |-> "not_json", body |-> EmptyDict]}

SmallEmailResponses ==
    {[kind |-> "json_object",
      body |-> [values |-> <<[email |-> GXCom, is_primary |-> FALSE],
                             [email |-> GraceXCom, is_primary |-> TRUE]>>]],
     [kind |-> "http_error", body |-> EmptyDict]}

\* ------------------------------------------------------ library calls
\* dsa_urlopen: urlopen raises HTTPError on an error status and URLError
\* (its base class, which no handler in this file names) on a transport failure.
dsa_urlopen(resp) ==
    CASE resp.kind = "http_error" -> Raise("HTTPError")
      [] resp.kind = "url_error" -> Raise("URLError")
      [] OTHER -> Ret(resp)

\* A response object exists whenever the server answered, HTTPError included.
OpensResponse(resp) == resp.kind # "url_error"

simplejson_load(opened) ==
    IF opened.raised # "none" THEN opened
    ELSE IF opened.value.kind = "not_json" THEN Raise("ValueError")
    ELSE Ret(opened.value)

\* str.split(' ', 1)
FirstSpace(s) == IF \E i \in 1..Len(s) : s[i] = " "
                 THEN CHOOSE i \in 1..Len(s) : s[i] = " " /\ \A j \in 1..(i - 1) : s[j] # " "
                 ELSE 0

\* mutant: str.rsplit(' ', 1), the split at the last space
LastSpace(s) == IF \E i \in 1..Len(s) : s[i] = " "
                THEN CHOOSE i \in 1..Len(s) : s[i] = " " /\ \A j \in (i + 1)..Len(s) : s[j] # " "
                ELSE 0

str_rsplit(s) ==
    IF LastSpace(s) = 0 THEN <<s>>
    ELSE <<SubSeq(s, 1, LastSpace(s) - 1), SubSeq(s, LastSpace(s) + 1, Len(s))>>

str_split(s) ==
    IF FirstSpace(s) = 0 THEN <<s>>
    ELSE <<SubSeq(s, 1, FirstSpace(s) - 1), SubSeq(s, FirstSpace(s) + 1, Len(s))>>

\* ------------------------------------------------- BitbucketBackend
\* The requests _fetch_primary_email issues: one GET of the emails
\* sub-resource, one page of PAGELEN records.
\* mutant: a second request, for the page after the first
EmailRequestsPaged(access_token) ==
    <<[url |-> BITBUCKET_USER_DATA_URL, path |-> "/emails?", fields |-> "-values.links",
       pagelen |-> PAGELEN, access_token |-> access_token],
      [url |-> BITBUCKET_USER_DATA_URL, path |-> "/emails?", fields |-> "-values.links",
       pagelen |-> PAGELEN, access_token |-> access_token]>>

EmailRequests(access_token) ==
    <<[url |-> BITBUCKET_USER_DATA_URL, path |-> "/emails?", fields |-> "-values.links",
       pagelen |-> PAGELEN, access_token |-> access_token]>>

\* mutant: the loop without its break, the last primary record wins
RECURSIVE ScanPrimaryLast(_)
ScanPrimaryLast(emails) ==
    IF emails = <<>> THEN Empty
    ELSE IF \E i \in 2..Len(emails) : Get(emails[i], "is_primary", FALSE)
         THEN ScanPrimaryLast(Tail(emails))
         ELSE IF Get(Head(emails), "is_primary", FALSE)
              THEN Get(Head(emails), "email", Empty)
              ELSE Empty

\* for email in emails: if email.get('is_primary', False): ...; break
RECURSIVE ScanPrimary(_)
ScanPrimary(emails) ==
    IF emails = <<>> THEN Empty
    ELSE IF Get(Head(emails), "is_primary", FALSE)
         THEN Get(Head(emails), "email", Empty)
         ELSE ScanPrimary(Tail(emails))

fetch_primary_email(resp) ==
    LET loaded == simplejson_load(dsa_urlopen(resp))
        emails == CASE loaded.raised \in {"ValueError", "HTTPError"} -> Ret(<<>>)
                    [] loaded.raised # "none" -> loaded
                    [] loaded.value.kind = "json_array" -> Raise("AttributeError")
                    [] OTHER -> Ret(Get(loaded.value.body, "values", <<>>))
    IN  IF emails.raised # "none" THEN emails ELSE Ret(ScanPrimary(emails.value))

\* name = response.get('display_name') or ''
display_name(resp) ==
    IF Get(resp, "display_name", None) \in {None, Empty} THEN Empty ELSE resp["display_name"]

\* try: first_name, last_name = name.split(' ', 1) ... (lines 66-74)
split_name(d, nm) ==
    IF Len(str_split(nm)) # 2
    THEN d @@ ("first_name" :> nm)
    ELSE d @@ ("first_name" :> str_split(nm)[1]) @@ ("last_name" :> str_split(nm)[2])

\* mutant: response.get('uuid'), None instead of KeyError
get_user_id_default(d, resp) == Ret(Get(resp, "uuid", None))

\* mutant: the username taken for the identifier
get_user_id_username(d, resp) ==
    IF "uuid" \in DOMAIN resp THEN Ret(d["username"]) ELSE Raise("KeyError")

\* return response['uuid']
get_user_id(d, resp) ==
    IF "uuid" \in DOMAIN resp THEN Ret(resp["uuid"]) ELSE Raise("KeyError")

\* --------------------------------------------------- BitbucketAuth
ProfileRequests(access_token) ==
    <<[url |-> BITBUCKET_USER_DATA_URL, path |-> "?", fields |-> "-links",
       access_token |-> access_token]>>

user_data(resp) ==
    LET data == simplejson_load(dsa_urlopen(resp))
    IN  CASE data.raised = "ValueError" -> Ret(NoneData)
          [] data.raised # "none" -> data
          [] OTHER -> Ret(data.value.body)

\* ------------------------------------------- the embedding framework
Token(a) == [i \in 1..a |-> "t"]

\* response = token response, updated with (data or {})
do_auth_response(token_response, data) ==
    IF data = NoneData THEN token_response ELSE data @@ token_response

NoIdentity == EmptyDict

CanonicalIdentity(uid, d) ==
    [uniqueId |-> uid, username |-> d["username"], email |-> d["email"],
     firstName |-> d["first_name"], lastName |-> Get(d, "last_name", Empty)]

\* ---------------------------------------------------------------- state
States == {"Start", "CodeReceived", "TokenObtained", "ProfileFetched",
           "EmailResolved", "IdentityReady", "Failed"}

Terminal == {"IdentityReady", "Failed"}

InitFor(attempts) ==
    /\ pc = [a \in attempts |-> "Start"]
    /\ reason = [a \in attempts |-> "none"]
    /\ tokenResp = [a \in attempts |-> EmptyDict]
    /\ profileResp = [a \in attempts |-> NotCalled]
    /\ emailResp = [a \in attempts |-> NotCalled]
    /\ response = [a \in attempts |-> EmptyDict]
    /\ name = [a \in attempts |-> Empty]
    /\ details = [a \in attempts |-> EmptyDict]
    /\ identity = [a \in attempts |-> NoIdentity]
    /\ requests = [a \in attempts |-> <<>>]
    /\ open = [a \in attempts |-> {}]
    /\ BACKENDS = BackendRegistry

Init == InitFor({1})

InitConcurrent == InitFor(1..NumAttempts)

Fail(a, e) ==
    /\ pc' = [pc EXCEPT ![a] = "Failed"]
    /\ reason' = [reason EXCEPT ![a] = e]

\* Start -> CodeReceived: the provider redirects back with a code.
ReceiveCode(a) ==
    /\ pc[a] = "Start"
    /\ pc' = [pc EXCEPT ![a] = "CodeReceived"]
    /\ UNCHANGED <<reason, tokenResp, profileResp, emailResp, response, name,
                   details, identity, requests, open, BACKENDS>>

\* CodeReceived -> TokenObtained | Failed: TokenExchanger.exchange.
Exchange(a) ==
    /\ pc[a] = "CodeReceived"
    /\ \E outcome \in {"ok", "TransportError", "TokenExchangeError"} :
          IF outcome = "ok"
          THEN /\ pc' = [pc EXCEPT ![a] = "TokenObtained"]
               /\ tokenResp' = [tokenResp EXCEPT ![a] = [access_token |-> Token(a)]]
               /\ UNCHANGED reason
          ELSE /\ Fail(a, outcome)
               /\ UNCHANGED tokenResp
    /\ UNCHANGED <<profileResp, emailResp, response, name, details, identity,
                   requests, open, BACKENDS>>

\* TokenObtained -> ProfileFetched | Failed: user_data(access_token).
FetchProfile(a, profiles) ==
    /\ pc[a] = "TokenObtained"
    /\ \E resp \in profiles :
          /\ profileResp' = [profileResp EXCEPT ![a] = resp]
          /\ requests' = [requests EXCEPT
                            ![a] = @ \o ProfileRequests(tokenResp[a]["access_token"])]
          /\ open' = [open EXCEPT
                        ![a] = IF OpensResponse(resp) THEN @ \cup {"profile"} ELSE @]
          /\ IF user_data(resp).raised = "none"
             THEN /\ pc' = [pc EXCEPT ![a] = "ProfileFetched"]
                  /\ response' = [response EXCEPT
                        ![a] = do_auth_response(tokenResp[a], user_data(resp).value)]
                  /\ UNCHANGED reason
             ELSE /\ Fail(a, user_data(resp).raised)
                  /\ UNCHANGED response
    /\ UNCHANGED <<tokenResp, emailResp, name, details, identity, BACKENDS>>

\* mutant: the details kept on the backend object, which every attempt uses
ResolveEmailShared(a, emails) ==
    /\ pc[a] = "ProfileFetched"
    /\ \E resp \in emails :
          /\ emailResp' = [emailResp EXCEPT ![a] = resp]
          /\ name' = [name EXCEPT ![a] = display_name(response[a])]
          /\ requests' = [requests EXCEPT
                            ![a] = @ \o EmailRequests(Get(response[a], "access_token", None))]
          /\ open' = [open EXCEPT
                        ![a] = IF OpensResponse(resp) THEN @ \cup {"emails"} ELSE @]
          /\ IF fetch_primary_email(resp).raised = "none"
             THEN /\ pc' = [pc EXCEPT ![a] = "EmailResolved"]
                  /\ details' = [b \in DOMAIN details |->
                               ("username" :> Get(response[a], "username", None))
                               @@ ("email" :> fetch_primary_email(resp).value)]
                  /\ UNCHANGED reason
             ELSE /\ Fail(a, fetch_primary_email(resp).raised)
                  /\ UNCHANGED details
    /\ UNCHANGED <<tokenResp, profileResp, response, identity, BACKENDS>>

\* ProfileFetched -> EmailResolved | Failed: get_user_details, lines 60-64.
ResolveEmail(a, emails) ==
    /\ pc[a] = "ProfileFetched"
    /\ \E resp \in emails :
          /\ emailResp' = [emailResp EXCEPT ![a] = resp]
          /\ name' = [name EXCEPT ![a] = display_name(response[a])]
          /\ requests' = [requests EXCEPT
                            ![a] = @ \o EmailRequests(Get(response[a], "access_token", None))]
          /\ open' = [open EXCEPT
                        ![a] = IF OpensResponse(resp) THEN @ \cup {"emails"} ELSE @]
          /\ IF fetch_primary_email(resp).raised = "none"
             THEN /\ pc' = [pc EXCEPT ![a] = "EmailResolved"]
                  /\ details' = [details EXCEPT
                        ![a] = ("username" :> Get(response[a], "username", None))
                               @@ ("email" :> fetch_primary_email(resp).value)]
                  /\ UNCHANGED reason
             ELSE /\ Fail(a, fetch_primary_email(resp).raised)
                  /\ UNCHANGED details
    /\ UNCHANGED <<tokenResp, profileResp, response, identity, BACKENDS>>

\* EmailResolved -> IdentityReady | Failed: get_user_details, lines 66-74,
\* then get_user_id, which takes the details and so runs after them.
BuildIdentity(a) ==
    /\ pc[a] = "EmailResolved"
    /\ details' = [details EXCEPT ![a] = split_name(@, name[a])]
    /\ IF get_user_id(details'[a], response[a]).raised = "none"
       THEN /\ pc' = [pc EXCEPT ![a] = "IdentityReady"]
            /\ identity' = [identity EXCEPT
                  ![a] = CanonicalIdentity(get_user_id(details'[a], response[a]).value,
                                           details'[a])]
            /\ UNCHANGED reason
       ELSE /\ Fail(a, get_user_id(details'[a], response[a]).raised)
            /\ UNCHANGED identity
    /\ UNCHANGED <<tokenResp, profileResp, emailResp, response, name, requests,
                   open, BACKENDS>>

\* Neither call closes the response it opened: the object is dropped, and
\* the runtime closes it whenever it finalises the object, if it does.
Finalize(a, h) ==
    /\ h \in open[a]
    /\ open' = [open EXCEPT ![a] = @ \ {h}]
    /\ UNCHANGED <<pc, reason, tokenResp, profileResp, emailResp, response, name,
                   details, identity, requests, BACKENDS>>

Next ==
    \/ \E a \in DOMAIN pc : ReceiveCode(a)
    \/ \E a \in DOMAIN pc : Exchange(a)
    \/ \E a \in DOMAIN pc : FetchProfile(a, ProfileResponses)
    \/ \E a \in DOMAIN pc : ResolveEmail(a, EmailResponses)
    \/ \E a \in DOMAIN pc : BuildIdentity(a)
    \/ \E a \in DOMAIN pc : \E h \in {"profile", "emails"} : Finalize(a, h)

NextConcurrent ==
    \/ \E a \in DOMAIN pc : ReceiveCode(a)
    \/ \E a \in DOMAIN pc : Exchange(a)
    \/ \E a \in DOMAIN pc : FetchProfile(a, SmallProfileResponses)
    \/ \E a \in DOMAIN pc : ResolveEmail(a, SmallEmailResponses)
    \/ \E a \in DOMAIN pc : BuildIdentity(a)
    \/ \E a \in DOMAIN pc : \E h \in {"profile", "emails"} : Finalize(a, h)

Spec == Init /\ [][Next]_vars

SpecConcurrent == InitConcurrent /\ [][NextConcurrent]_vars

\* ================================================================ claims
Range(s) == {s[i] : i \in DOMAIN s}

IsPrimary(rec) == "is_primary" \in DOMAIN rec /\ rec["is_primary"]

\* result is the email of the first primary record of emails, '' without one
FirstPrimaryIs(emails, result) ==
    \/ \E i \in 1..Len(emails) :
          /\ IsPrimary(emails[i])
          /\ \A j \in 1..(i - 1) : ~IsPrimary(emails[j])
          /\ result = emails[i]["email"]
    \/ /\ \A i \in 1..Len(emails) : ~IsPrimary(emails[i])
       /\ result = Empty

EmailValues(a) == Get(emailResp[a].body, "values", <<>>)

EmailCallFailed(a) ==
    emailResp[a].kind \in {"json_array", "not_json", "http_error", "url_error"}

\* the display name the provider sent, '' when it sent none
SentName(a) ==
    IF "display_name" \in DOMAIN profileResp[a].body
       /\ profileResp[a].body["display_name"] # None
    THEN profileResp[a].body["display_name"]
    ELSE Empty

\* C1: whatever records the emails sub-resource returns, _fetch_primary_email
\* returns the email of the first record in response order whose primary flag
\* is true, and '' when no record is primary.
C1_FirstPrimaryEmail ==
    \A a \in DOMAIN pc :
       emailResp[a].kind = "json_object" =>
          /\ "email" \in DOMAIN details[a]
          /\ FirstPrimaryIs(EmailValues(a), details[a]["email"])

C1_Witness ==
    \E a \in DOMAIN pc :
       /\ emailResp[a].kind = "json_object"
       /\ EmailValues(a) = <<[email |-> GraceXCom, is_primary |-> TRUE],
                             [email |-> GXCom, is_primary |-> TRUE]>>
       /\ "email" \in DOMAIN details[a]
       /\ details[a]["email"] = GraceXCom

\* C2: any failure of the email call (transport failure, HTTP error status,
\* unparseable or unexpectedly shaped body) yields email '' and never
\* propagates: with a profile that has a uuid the attempt does not fail and
\* carries email = ''.
C2_EmailFailureNeverPropagates ==
    \A a \in DOMAIN pc :
       (EmailCallFailed(a) /\ "uuid" \in DOMAIN response[a]) =>
          /\ pc[a] \in {"EmailResolved", "IdentityReady"}
          /\ details[a]["email"] = Empty
          /\ pc[a] = "IdentityReady" => identity[a].email = Empty

\* C3: a profile without uuid makes get_user_id raise the missing-identifier
\* error (KeyError) whatever else the profile holds, and the attempt then ends
\* Failed without a CanonicalIdentity.
C3_MissingUuidAborts ==
    \A a \in DOMAIN pc :
       (pc[a] \in {"ProfileFetched", "EmailResolved", "IdentityReady", "Failed"}
        /\ "uuid" \notin DOMAIN response[a]) =>
          /\ pc[a] # "IdentityReady"
          /\ identity[a] = NoIdentity
          /\ "first_name" \in DOMAIN details[a] =>
                (pc[a] = "Failed" /\ reason[a] = "KeyError")

C3_Witness ==
    \E a \in DOMAIN pc :
       /\ pc[a] = "Failed"
       /\ reason[a] = "KeyError"
       /\ profileResp[a].kind = "json_object"
       /\ DOMAIN profileResp[a].body = {"username", "display_name"}
       /\ profileResp[a].body["display_name"] = GraceHopper
       /\ details[a]["email"] = GraceXCom

\* C4: in IdentityReady the uniqueId is a non-empty string, also for profiles
\* whose uuid is present but empty or null.
C4_UniqueIdNeverEmpty ==
    \A a \in DOMAIN pc :
       pc[a] = "IdentityReady" => identity[a].uniqueId \notin {Empty, None}

\* C5 (as stated): the display name is split on its first whitespace run:
\* firstName is the text before the run, lastName the text after it, without
\* leading whitespace; no whitespace gives lastName ''; an absent, empty or
\* whitespace-only name gives firstName '' and lastName ''.
WsStart(s) == IF \E i \in 1..Len(s) : s[i] \in Whitespace
              THEN CHOOSE i \in 1..Len(s) :
                      s[i] \in Whitespace /\ \A j \in 1..(i - 1) : s[j] \notin Whitespace
              ELSE Len(s) + 1

WsEnd(s) == IF \E i \in WsStart(s)..Len(s) : s[i] \notin Whitespace
            THEN CHOOSE i \in WsStart(s)..Len(s) :
                    s[i] \notin Whitespace /\ \A j \in WsStart(s)..(i - 1) : s[j] \in Whitespace
            ELSE Len(s) + 1

C5_SplitOnWhitespaceRun ==
    \A a \in DOMAIN pc :
       "first_name" \in DOMAIN details[a] =>
          /\ details[a]["first_name"] = SubSeq(SentName(a), 1, WsStart(SentName(a)) - 1)
          /\ Get(details[a], "last_name", Empty)
                = SubSeq(SentName(a), WsEnd(SentName(a)), Len(SentName(a)))

\* C5 (amended): the display name is split at its first space character
\* (U+0020) alone: first_name is the text before it and last_name everything
\* after that one character, further spaces included; a name without a space
\* (tabs are no separators), an empty one and an absent one give first_name =
\* the whole name and no last_name, which the identity shows as ''.
C5_SplitOnFirstSpace ==
    \A a \in DOMAIN pc :
       "first_name" \in DOMAIN details[a] =>
          /\ " " \notin Range(details[a]["first_name"])
          /\ IF " " \in Range(SentName(a))
             THEN /\ "last_name" \in DOMAIN details[a]
                  /\ details[a]["first_name"] \o <<" ">> \o details[a]["last_name"]
                        = SentName(a)
             ELSE /\ "last_name" \notin DOMAIN details[a]
                  /\ details[a]["first_name"] = SentName(a)
          /\ pc[a] = "IdentityReady" =>
                /\ identity[a].firstName = details[a]["first_name"]
                /\ identity[a].lastName = Get(details[a], "last_name", Empty)

C5_Witness ==
    \E a \in DOMAIN pc :
       /\ pc[a] = "IdentityReady"
       /\ SentName(a) = <<"a", " ", " ">>
       /\ identity[a].firstName = <<"a">>
       /\ identity[a].lastName = <<" ">>

\* C6: a non-JSON profile response does not raise out of user_data; the
\* profile counts as empty and the attempt fails at get_user_id with the
\* missing-identifier error, not earlier with another error.
C6_MalformedProfileFailsAtUniqueId ==
    \A a \in DOMAIN pc :
       profileResp[a].kind = "not_json" =>
          /\ DOMAIN response[a] = {"access_token"}
          /\ pc[a] \in {"ProfileFetched", "EmailResolved", "Failed"}
          /\ pc[a] = "Failed" => reason[a] = "KeyError"

\* C7: a successful attempt's identity is composed field by field: uniqueId
\* is the profile's uuid, username the profile's username, email what
\* _fetch_primary_email returns for the attempt's token, first and last name
\* the split of the display name; the Grace Hopper example yields
\* {abc-123, grace, grace@x.com, Grace, Hopper}.
C7_IdentityComposition ==
    \A a \in DOMAIN pc :
       pc[a] = "IdentityReady" =>
          /\ identity[a].uniqueId = profileResp[a].body["uuid"]
          /\ identity[a].username = Get(profileResp[a].body, "username", None)
          /\ FirstPrimaryIs(EmailValues(a), identity[a].email)
          /\ requests[a][Len(requests[a])].path = "/emails?"
          /\ requests[a][Len(requests[a])].access_token = tokenResp[a]["access_token"]
          /\ IF " " \in Range(SentName(a))
             THEN /\ identity[a].firstName \o <<" ">> \o identity[a].lastName = SentName(a)
                  /\ " " \notin Range(identity[a].firstName)
             ELSE /\ identity[a].firstName = SentName(a)
                  /\ identity[a].lastName = Empty
          /\ (/\ profileResp[a].body
                   = [username |-> Grace, uuid |-> UuidAbc123, display_name |-> GraceHopper]
              /\ EmailValues(a) = <<[email |-> GXCom, is_primary |-> FALSE],
                                    [email |-> GraceXCom, is_primary |-> TRUE]>>)
             => identity[a] = [uniqueId |-> UuidAbc123, username |-> Grace,
                               email |-> GraceXCom,
                               firstName |-> <<"G", "r", "a", "c", "e">>,
                               lastName |-> <<"H", "o", "p", "p", "e", "r">>]

C7_Witness ==
    \E a \in DOMAIN pc :
       /\ pc[a] = "IdentityReady"
       /\ profileResp[a].body
             = [username |-> Grace, uuid |-> UuidAbc123, display_name |-> GraceHopper]
       /\ EmailValues(a) = <<[email |-> GXCom, is_primary |-> FALSE],
                             [email |-> GraceXCom, is_primary |-> TRUE]>>
       /\ identity[a].email = GraceXCom

\* C8: an attempt moves Start, CodeReceived, TokenObtained, ProfileFetched,
\* EmailResolved, IdentityReady in that order, may leave a non-terminal state
\* for Failed, never leaves a terminal state and never goes back; the profile
\* and the email request are each issued at most once, the email request
\* after the profile was fetched, for one page.
Rank(st) ==
    CASE st = "Start" -> 0
      [] st = "CodeReceived" -> 1
      [] st = "TokenObtained" -> 2
      [] st = "ProfileFetched" -> 3
      [] st = "EmailResolved" -> 4
      [] st = "IdentityReady" -> 5
      [] st = "Failed" -> 6

StepInOrder ==
    \A a \in DOMAIN pc :
       /\ pc'[a] # pc[a] =>
             /\ pc[a] \notin Terminal
             /\ pc'[a] = "Failed" \/ Rank(pc'[a]) = Rank(pc[a]) + 1
       /\ requests'[a] # requests[a] =>
             /\ pc[a] \in {"TokenObtained", "ProfileFetched"}
             /\ Len(requests'[a]) = Len(requests[a]) + 1

CallsOnce ==
    \A a \in DOMAIN pc :
       /\ Cardinality({i \in DOMAIN requests[a] : requests[a][i].path = "?"}) <= 1
       /\ Cardinality({i \in DOMAIN requests[a] : requests[a][i].path = "/emails?"}) <= 1
       /\ \A i \in DOMAIN requests[a] :
             requests[a][i].path = "/emails?" =>
                /\ i = 2
                /\ requests[a][1].path = "?"
                /\ requests[a][i].pagelen = PAGELEN
                /\ user_data(profileResp[a]).raised = "none"
                /\ pc[a] \in {"EmailResolved", "IdentityReady", "Failed"}

C8_StateOrder == [][StepInOrder]_vars /\ []CallsOnce

C8_Witness ==
    \E a \in DOMAIN pc :
       /\ pc[a] = "IdentityReady"
       /\ Len(requests[a]) = 2
       /\ requests[a][2].path = "/emails?"

\* C9: every response opened by user_data or _fetch_primary_email is closed
\* before the operation returns or fails: no terminal state of an attempt
\* has a response still open.
C9_ResponsesReleased ==
    \A a \in DOMAIN pc : pc[a] \in Terminal => open[a] = {}

\* C10: concurrent attempts share no mutable state: under every interleaving
\* each attempt's outcome is the one its own token and provider responses
\* determine, no step of one attempt changes what another attempt holds, and
\* the backend registry is never modified.
OwnOutcome(a) ==
    CASE tokenResp[a] = EmptyDict ->
            /\ pc[a] = "Failed"
            /\ reason[a] \in {"TransportError", "TokenExchangeError"}
            /\ identity[a] = NoIdentity
      [] user_data(profileResp[a]).raised # "none" ->
            /\ pc[a] = "Failed"
            /\ reason[a] = user_data(profileResp[a]).raised
            /\ identity[a] = NoIdentity
      [] fetch_primary_email(emailResp[a]).raised # "none" ->
            /\ pc[a] = "Failed"
            /\ reason[a] = fetch_primary_email(emailResp[a]).raised
            /\ identity[a] = NoIdentity
      [] profileResp[a].kind = "not_json" \/ "uuid" \notin DOMAIN profileResp[a].body ->
            /\ pc[a] = "Failed"
            /\ reason[a] = "KeyError"
            /\ identity[a] = NoIdentity
      [] OTHER ->
            /\ pc[a] = "IdentityReady"
            /\ reason[a] = "none"
            /\ identity[a].uniqueId = profileResp[a].body["uuid"]
            /\ identity[a].username = Get(profileResp[a].body, "username", None)
            /\ FirstPrimaryIs(EmailValues(a), identity[a].email)
            /\ " " \notin Range(identity[a].firstName)
            /\ IF " " \in Range(SentName(a))
               THEN identity[a].firstName \o <<" ">> \o identity[a].lastName = SentName(a)
               ELSE identity[a].firstName = SentName(a) /\ identity[a].lastName = Empty

Private(a) == <<pc[a], reason[a], tokenResp[a], profileResp[a], emailResp[a],
                response[a], name[a], details[a], identity[a], requests[a], open[a]>>

OthersUntouched ==
    /\ BACKENDS' = BACKENDS
    /\ \E a \in DOMAIN pc : \A b \in DOMAIN pc \ {a} : Private(b)' = Private(b)

C10_AttemptsIndependent ==
    /\ [][OthersUntouched]_vars
    /\ [](BACKENDS = BackendRegistry)
    /\ [](\A a \in DOMAIN pc : pc[a] \in Terminal => OwnOutcome(a))

C10_Witness ==
    /\ pc[1] = "IdentityReady"
    /\ identity[1].email = GraceXCom
    /\ pc[2] = "Failed"
    /\ reason[2] = "KeyError"
    /\ emailResp[2].kind = "http_error"
    /\ requests[1][2].access_token = Token(1)
    /\ requests[2][2].access_token = Token(2)

====
